---- MODULE Spec2Model ----
(***************************************************************************)
(* Model of the image generation service: three revisions of the same      *)
(* express server live in the repository,                                  *)
(*   "server"   src/server.js          (style prefix, recursive retry,     *)
(*                                      sequential fast loop, fixed 4:3)   *)
(*   "part_000" src/unnamed/part_000   (no retry, sequential fast loop)    *)
(*   "part_001" src/unnamed/part_001   (retry loop with per-call timeout,  *)
(*                                      Promise.all fast path)             *)
(* and every handler is modelled once per revision where the revisions     *)
(* differ.  Arithmetic on image sizes is exact rational arithmetic on the  *)
(* integer widths and heights (the doubles of the source are exact for     *)
(* every size and quotient compared here).                                 *)
(***************************************************************************)
EXTENDS Integers, Sequences, FiniteSets, TLC

\* ------------------------------------------------------------------ bounds
\* Source images of the normalizer: every size 1..MaxDim, and SpecialDims.
MaxDim == 12
\* Prompt lists of 0..MaxShort entries, and of FastLimit+1..FastLimit+MaxExtra.
MaxShort == 3
MaxExtra == 1
\* A request causes at most MaxCalls backend calls: its first attempts, and
\* one more for every faulty answer the backend is allowed to give.
MaxCalls == 7
\* Lines of a result manifest.
MaxLines == 4
\* Polls of one job.
MaxPolls == 2

\* ------------------------------------------------------- program constants
FastLimit == 10
MAX_ATTEMPTS == 3

Variants == {"server", "part_000", "part_001"}
Aspects == {"4:3", "16:9"}
\* The absent value of a record-valued variable.
None == [step |-> "none"]

Max(a, b) == IF a > b THEN a ELSE b
Min(a, b) == IF a < b THEN a ELSE b
Abs(a) == IF a < 0 THEN 0 - a ELSE a

VARIABLES
  variant,     \* which revision of the server runs
  nImg,        \* normalizer: the decoded source image
  nAspect,     \* normalizer: the requested aspect
  nOut,        \* normalizer: the steps and result of toAspect, or None
  nAgain,      \* normalizer: the same of toAspect on the returned image
  body,        \* /submit-fast: req.body.prompts, [kind, items]
  reqAspect,   \* /submit-fast: req.body.aspect, or "absent"
  imgSize,     \* the size of the images the generation backend draws
  fpc,         \* /submit-fast: "start" | "running" | "sent"
  limited,     \* /submit-fast: the retained prompts
  tasks,       \* /submit-fast: per retained prompt [st, calls, last, img]
  results,     \* /submit-fast: the results array
  responses,   \* /submit-fast: the responses written to res, in order
  faults,      \* faulty answers the backend has given to this request
  called,      \* the prompts the generation backend has been called with
  overtaken,   \* some item resolved while an earlier item was still pending
  lateCall,    \* a backend call was issued after the response was written
  batchId,     \* /status: req.query.batch_id, or "absent"
  job,         \* the backend's batch job [status, aspect, lines]
  spc,         \* /status: "start" | "retrieving" | "fetching" | "sent"
  sJob,        \* /status: b, the job as batches.retrieve returned it
  sResponses,  \* /status: the responses written, over all polls
  fetches,     \* /status: files.content calls of the current poll
  normCalls,   \* /status: toAspect calls of the current poll
  polls,       \* /status: polls started
  clock,       \* Date.now(), in milliseconds
  breq,        \* /submit-batch: per request [pc, body, aspect, tmp, lines,
               \*   written, file, resp]
  disk,        \* the files of os.tmpdir(): path -> lines
  bjobs        \* the batch jobs the backend has created, in order

normVars == <<nImg, nAspect, nOut, nAgain>>
fastVars == <<body, reqAspect, imgSize, fpc, limited, tasks, results, responses,
              faults, called, overtaken, lateCall>>
statusVars == <<batchId, job, spc, sJob, sResponses, fetches, normCalls, polls>>
batchVars == <<clock, breq, disk, bjobs>>
vars == <<variant, normVars, fastVars, statusVars, batchVars>>

\* ------------------------------------------------------------ normalizer
SpecialDims == {1024, 1079, 1080, 1081, 1199, 1200, 1201, 1536,
                1599, 1600, 1601, 1919, 1920, 1921, 4000}
SourceDims == (1 .. MaxDim) \cup SpecialDims

targetSize(aspect) ==
  IF aspect = "4:3" THEN [w |-> 1600, h |-> 1200] ELSE [w |-> 1920, h |-> 1080]

\* Math.round(n / d) for n >= 0, d > 0: halves round up.
MathRound(n, d) == (2 * n + d) \div (2 * d)
\* Math.floor(n / 2), also for negative n.
FloorHalf_none(n) == n
FloorHalf(n) == n \div 2

AlreadyTarget_never(W, H, TW, TH) == FALSE
\* Math.abs(r0 - R) < 1e-3 && W === TW && H === TH, the first conjunct being
\* |W*TH - TW*H| / (H*TH) < 1/1000, that is |W*TH - TW*H| < ceil(H*TH / 1000).
AlreadyTarget(W, H, TW, TH) ==
  /\ Abs(W * TH - TW * H) < (H * TH + 999) \div 1000
  /\ W = TW
  /\ H = TH

WiderThanTarget_flipped(W, H, TW, TH) == W * TH < TW * H
\* r0 > R, with r0 = W / H and R = TW / TH
WiderThanTarget(W, H, TW, TH) == W * TH > TW * H

\* Jimp's resize: the bitmap takes the size asked for.
resize(img, w, h) == [img EXCEPT !.w = w, !.h = h]
\* Jimp's crop: the window w x h at (x, y); only the pixels the bitmap has
\* can be kept, so a window that does not fit yields a smaller image.
crop(img, x, y, w, h) ==
  [img EXCEPT !.w = Max(0, Min(w, img.w - x)), !.h = Max(0, Min(h, img.h - y))]

\* toAspect on a decoded image, with its intermediate values:
\* step is "asis" | "cropX" | "cropY", scaled the image after resize,
\* x and y the crop offsets, out the returned image.
toAspectSteps(img, aspect) ==
  LET TW == targetSize(aspect).w
      TH == targetSize(aspect).h
      W == img.w
      H == img.h
  IN IF AlreadyTarget(W, H, TW, TH)
     THEN [step |-> "asis", scaled |-> img, x |-> 0, y |-> 0, out |-> img]
     ELSE IF WiderThanTarget(W, H, TW, TH)
     THEN LET s == resize(img, MathRound(W * TH, H), TH)
              x == Max(0, FloorHalf(s.w - TW))
          IN [step |-> "cropX", scaled |-> s, x |-> x, y |-> 0,
              out |-> crop(s, x, 0, TW, TH)]
     ELSE LET s == resize(img, TW, MathRound(H * TW, W))
              y == Max(0, FloorHalf(s.h - TH))
          IN [step |-> "cropY", scaled |-> s, x |-> 0, y |-> y,
              out |-> crop(s, 0, y, TW, TH)]

toAspect(img, aspect) == toAspectSteps(img, aspect).out

\* ------------------------------------------------------ prompt composer
\* Strings are sequences of characters.
STYLE_PREFIX == <<"s", "t", "y", "l", "e">>
Separator == <<"\n", "\n", "S", "u", "b", "j", "e", "c", "t", ":", " ">>
\* `${STYLE_PREFIX}\n\nSubject: ${raw}`
compose(style, subject) == style \o Separator \o subject

\* The prompt string a revision sends to the backend for the subject raw.
SentPrompt(v, raw) == IF v = "server" THEN compose(STYLE_PREFIX, raw) ELSE raw

\* ---------------------------------------------------- generation backend
\* An attempt is one call the source makes: client.images.generate (server.js,
\* part_000) or fetchWithTimeout (part_001).
\* One answer of the backend to a single-item call:
\*   "ok"      success with a base64 PNG,
\*   "fail"    transport error or non-success status,
\*   "empty"   success without b64_json (missing or ""),
\*   "garbage" success whose b64_json is not a raster image.
Outcomes == {"ok", "fail", "empty", "garbage"}
\* A call the backend never finishes: "hang" (the connection never answers)
\* or "stall" (the response headers arrive, the body never ends).  Such a
\* call ends only if something aborts it, and then as the outcome "timeout".
HangKinds == {"hang", "stall"}

\* What stands ready to abort a call of revision v that never resolves:
\*   "armed" fetchWithTimeout's timer: set before fetch, cleared by the
\*           finally block as soon as fetch settles, that is once the
\*           headers are there; resp.json() then runs without a timer;
\*   "none"  nothing in the source;
\*   "sdk"   client.images.generate: the source sets no timeout, whether
\*           the call ever ends is left to the client library.
TimerDuring(v, k) ==
  IF v = "part_001" THEN (IF k = "hang" THEN "armed" ELSE "none") ELSE "sdk"

NoSrc == [prompt |-> <<>>, attempt |-> 0]
NoImg == [w |-> 0, h |-> 0, src |-> NoSrc]
\* The image the backend draws for prompt at the given attempt.
Drawn(prompt, attempt) ==
  [w |-> imgSize.w, h |-> imgSize.h, src |-> [prompt |-> prompt, attempt |-> attempt]]

\* What one attempt of the generation call does with the backend's answer:
\* "return" (the payload goes to the caller), "retry" or "throw".
generateImageB64_server_noretry(attempt, o) ==
  IF o \in {"ok", "garbage"} THEN "return" ELSE "throw"
\* server.js: try { ... if (!b64) throw ...; return b64 }
\*            catch { if (attempt < MAX_ATTEMPTS) retry; throw e }
generateImageB64_server(attempt, o) ==
  IF o \in {"ok", "garbage"} THEN "return"
  ELSE IF attempt < MAX_ATTEMPTS THEN "retry" ELSE "throw"

\* part_001: for (i = 0; i < 3; i++) { try {...} catch { lastErr = e; sleep } }
\* throw lastErr; attempt is i + 1, and the loop goes on while i + 1 < 3.
generateImageB64_part001(attempt, o) ==
  IF o \in {"ok", "garbage"} THEN "return"
  ELSE IF attempt < 3 THEN "retry" ELSE "throw"

\* part_000: r = await client.images.generate(...); b64 = r.data[0].b64_json
\* one call, whose failure leaves the handler's try block; an answer without
\* payload is returned as it is (undefined).
generate_part000(attempt, o) ==
  IF o \in {"fail", "timeout"} THEN "throw" ELSE "return"

Generate(v, attempt, o) ==
  CASE v = "server" -> generateImageB64_server(attempt, o)
    [] v = "part_001" -> generateImageB64_part001(attempt, o)
    [] OTHER -> generate_part000(attempt, o)

\* Buffer.from(b64, "base64") and Jimp.read throw unless the payload is a PNG.
Decodes(o) == o = "ok"

\* ------------------------------------------------------------ /submit-fast
\* Array.prototype.slice(0, n)
Take(s, n) == SubSeq(s, 1, Min(n, Len(s)))

IsArray(p) == p.kind = "list"

Limit_unbounded(items) == items
\* prompts.slice(0, 10)
Limit(items) == Take(items, FastLimit)

\* The outcome of the handler's input check: code 0 lets the request through.
\* server.js and part_001:
\*   limited = Array.isArray(prompts) ? prompts.slice(0, 10) : [];
\*   if (limited.length === 0) return res.status(400)
FastValidate_guarded(p) ==
  LET lim == IF IsArray(p) THEN Limit(p.items) ELSE <<>>
  IN IF Len(lim) = 0 THEN [code |-> 400, limited |-> <<>>]
     ELSE [code |-> 0, limited |-> lim]

\* part_000: limited = prompts.slice(0, 10) comes before the Array.isArray
\* test: null, a number and an object have no slice and the TypeError reaches
\* the handler's catch (500); a string has one.
FastValidate_part000(p) ==
  IF p.kind \in {"null", "number", "object"}
  THEN [code |-> 500, limited |-> <<>>]
  ELSE LET lim == IF IsArray(p) THEN Limit(p.items) ELSE <<>>
       IN IF ~IsArray(p) \/ Len(lim) = 0 THEN [code |-> 400, limited |-> <<>>]
          ELSE [code |-> 0, limited |-> lim]

FastValidate(v, p) ==
  IF v = "part_000" THEN FastValidate_part000(p) ELSE FastValidate_guarded(p)

\* const { prompts = [] } = req.body: only an absent prompts takes the default.
Prompts == IF body.kind = "absent" THEN [kind |-> "list", items |-> <<>>] ELSE body

\* The aspect the fast handler normalizes to: DEFAULT_ASPECT in server.js,
\* req.body.aspect defaulting to "16:9" in the other two.
FastAspect ==
  IF variant = "server" THEN "4:3"
  ELSE IF reqAspect = "absent" THEN "16:9" ELSE reqAspect

Concurrent == variant = "part_001"

ErrorResponse(code) == [code |-> code, mode |-> "error", count |-> 0, images |-> <<>>]
\* res.json({ mode: "fast", count: results.length, images: results })
FastResponse(res) == [code |-> 200, mode |-> "fast", count |-> Len(res), images |-> res]

FastFailure_partial(ts) ==
  FastResponse([i \in 1 .. Len(SelectSeq(ts, LAMBDA t : t.st = "done")) |->
                  SelectSeq(ts, LAMBDA t : t.st = "done")[i].img])
\* catch (e) { res.status(500).json({ error: e.message }) }, the items being ts
FastFailure(ts) == ErrorResponse(500)

IdleTask == [st |-> "idle", calls |-> 0, last |-> "none", img |-> NoImg]
CallingTask == [st |-> "calling", calls |-> 1, last |-> "none", img |-> NoImg]

PositionalResults_settledFirst(ts) ==
  LET first == SelectSeq(ts, LAMBDA t : t.calls = 1)
      later == SelectSeq(ts, LAMBDA t : t.calls # 1)
  IN [i \in 1 .. Len(ts) |-> (first \o later)[i].img]
\* results = await Promise.all(tasks): the value of task i at position i.
PositionalResults(ts) == [i \in 1 .. Len(ts) |-> ts[i].img]

\* The handler is entered: input check, then the first backend call of the
\* loop (sequential revisions) or of every item (limited.map in part_001).
SubmitFast ==
  /\ fpc = "start"
  /\ LET v == FastValidate(variant, Prompts)
         n == Len(v.limited)
     IN IF v.code # 0
        THEN /\ responses' = Append(responses, ErrorResponse(v.code))
             /\ fpc' = "sent"
             /\ UNCHANGED <<limited, tasks, called>>
        ELSE /\ limited' = v.limited
             /\ fpc' = "running"
             /\ tasks' = [i \in 1 .. n |->
                           IF Concurrent \/ i = 1 THEN CallingTask ELSE IdleTask]
             /\ called' = {SentPrompt(variant, v.limited[i]) :
                             i \in IF Concurrent THEN 1 .. n ELSE {1}}
             /\ UNCHANGED responses
  /\ UNCHANGED <<variant, normVars, batchVars, statusVars, body, reqAspect, imgSize, results,
                 faults, overtaken, lateCall>>

\* The task record of item i after the backend answered its pending call with o.
AfterAnswer(i, o) ==
  LET t == tasks[i]
      g == Generate(variant, t.calls, o)
  IN CASE g = "retry" -> [t EXCEPT !.st = "sleeping", !.last = o]
       [] g = "throw" -> [t EXCEPT !.st = "failed", !.last = o]
       [] OTHER ->
            IF Decodes(o)
            THEN [t EXCEPT !.st = "done", !.last = o,
                           !.img = toAspect(Drawn(SentPrompt(variant, limited[i]), t.calls),
                                            FastAspect)]
            ELSE [t EXCEPT !.st = "failed", !.last = o]

AllDone(ts) == \A j \in 1 .. Len(ts) : ts[j].st = "done"

\* The pending call of item i ends with outcome o; the handler runs on to its
\* next suspension point.
Settle(i, o) ==
  /\ LET t == AfterAnswer(i, o) IN
     IF Concurrent
     THEN \* part_001: the item's promise settles; Promise.all rejects on the
          \* first rejection and resolves when every item has resolved.
          /\ tasks' = [tasks EXCEPT ![i] = t]
          /\ overtaken' = (overtaken \/ (t.st = "done" /\
                             \E j \in 1 .. (i - 1) : tasks[j].st # "done"))
          /\ called' = called
          /\ IF fpc = "running" /\ t.st = "failed"
             THEN /\ responses' = Append(responses, FastFailure(tasks'))
                  /\ fpc' = "sent"
                  /\ results' = results
             ELSE IF fpc = "running" /\ AllDone(tasks')
             THEN /\ results' = PositionalResults(tasks')
                  /\ responses' = Append(responses, FastResponse(results'))
                  /\ fpc' = "sent"
             ELSE UNCHANGED <<responses, fpc, results>>
     ELSE \* server.js, part_000: the loop body of item i
          /\ overtaken' = overtaken
          /\ IF t.st = "failed"
             THEN /\ tasks' = [tasks EXCEPT ![i] = t]
                  /\ responses' = Append(responses, FastFailure(tasks'))
                  /\ fpc' = "sent"
                  /\ UNCHANGED <<results, called>>
             ELSE IF t.st = "sleeping"
             THEN /\ tasks' = [tasks EXCEPT ![i] = t]
                  /\ UNCHANGED <<responses, fpc, results, called>>
             ELSE /\ results' = Append(results, t.img)
                  /\ IF i = Len(tasks)
                     THEN /\ tasks' = [tasks EXCEPT ![i] = t]
                          /\ responses' = Append(responses, FastResponse(results'))
                          /\ fpc' = "sent"
                          /\ called' = called
                     ELSE /\ tasks' = [tasks EXCEPT ![i] = t, ![i + 1] = CallingTask]
                          /\ called' = called \cup {SentPrompt(variant, limited[i + 1])}
                          /\ UNCHANGED <<responses, fpc>>
  /\ UNCHANGED <<variant, normVars, batchVars, statusVars, body, reqAspect, imgSize, limited,
                 lateCall>>

\* The backend answers the pending call of item i.
BackendAnswers(i, o) ==
  /\ fpc # "start"
  /\ i \in 1 .. Len(tasks)
  /\ tasks[i].st = "calling"
  /\ o # "ok" => faults + Len(limited) < MaxCalls
  /\ faults' = IF o = "ok" THEN faults ELSE faults + 1
  /\ Settle(i, o)

\* The backend never finishes the pending call of item i.
CallNeverResolves(i, k) ==
  /\ fpc # "start"
  /\ i \in 1 .. Len(tasks)
  /\ tasks[i].st = "calling"
  /\ faults + Len(limited) < MaxCalls
  /\ faults' = faults + 1
  /\ tasks' = [tasks EXCEPT ![i].st = "hung", ![i].last = k]
  /\ UNCHANGED <<variant, normVars, batchVars, statusVars, body, reqAspect, imgSize, fpc,
                 limited, results, responses, called, overtaken, lateCall>>

\* What stands ready to abort the call of task t.
Timer(t) == IF t.st = "hung" THEN TimerDuring(variant, t.last) ELSE "none"

\* part_001: fetchWithTimeout's timer fires, controller.abort() rejects the
\* fetch and the attempt has failed.
TimeoutAborts(i) ==
  /\ i \in 1 .. Len(tasks)
  /\ Timer(tasks[i]) = "armed"
  /\ faults' = faults
  /\ Settle(i, "timeout")

\* server.js, part_000: the client library gives the call up and
\* client.images.generate rejects.
LibraryAborts(i) ==
  /\ i \in 1 .. Len(tasks)
  /\ Timer(tasks[i]) = "sdk"
  /\ faults' = faults
  /\ Settle(i, "timeout")

\* The backoff sleep of item i ends and its next attempt is issued.
RetryAfterSleep(i) ==
  /\ i \in 1 .. Len(tasks)
  /\ tasks[i].st = "sleeping"
  /\ tasks' = [tasks EXCEPT ![i].st = "calling", ![i].calls = @ + 1]
  /\ lateCall' = (lateCall \/ fpc = "sent")
  /\ UNCHANGED <<variant, normVars, batchVars, statusVars, body, reqAspect, imgSize, fpc,
                 limited, results, responses, faults, called, overtaken>>

\* ---------------------------------------------------------------- /status
\* The states of a backend batch job.
Statuses == {"validating", "in_progress", "completed", "failed", "expired"}

\* A line of the result file, [kind, id]:
\*   "image"     JSON whose response.body.data[0].b64_json is a PNG,
\*   "nopayload" JSON without response.body.data[0].b64_json,
\*   "garbage"   JSON whose b64_json is not a raster image,
\*   "badjson"   not JSON,
\*   "blank"     the empty line.
LineKinds == {"image", "nopayload", "garbage", "badjson", "blank"}

\* text.split("\n").filter(Boolean)
NonBlank(lines) == SelectSeq(lines, LAMBDA l : l.kind # "blank")

\* (b.metadata && b.metadata.aspect) || DEFAULT_ASPECT, "16:9" in the parts
StatusAspect(v, b) ==
  IF b.aspect # "absent" THEN b.aspect
  ELSE IF v = "server" THEN "4:3" ELSE "16:9"

\* One iteration of the loop over the lines: JSON.parse throws on "badjson",
\* if (!b64) continue, toAspect throws on "garbage", else images.push.
LineStep_noskip(line) ==
  CASE line.kind = "badjson" -> "throw"
    [] line.kind = "nopayload" -> "push"
    [] line.kind = "garbage" -> "throw"
    [] OTHER -> "push"
LineStep(line) ==
  CASE line.kind = "badjson" -> "throw"
    [] line.kind = "nopayload" -> "skip"
    [] line.kind = "garbage" -> "throw"
    [] OTHER -> "push"

\* The image of a result line, as the backend drew it.
LineImage(line) ==
  [w |-> imgSize.w, h |-> imgSize.h,
   src |-> [prompt |-> <<"#", ToString(line.id)>>, attempt |-> 1]]

\* The loop over the lines from acc = [ok, images, norms] on: it ends at the
\* first line that throws.
RECURSIVE DecodeLines(_, _, _)
DecodeLines(lines, aspect, acc) ==
  IF lines = <<>> THEN acc
  ELSE LET step == LineStep(Head(lines)) IN
       CASE step = "skip" -> DecodeLines(Tail(lines), aspect, acc)
         [] step = "throw" ->
              [acc EXCEPT !.ok = FALSE,
                          !.norms = IF Head(lines).kind = "badjson" THEN @ ELSE @ + 1]
         [] OTHER ->
              DecodeLines(Tail(lines), aspect,
                          [acc EXCEPT !.images = Append(@, toAspect(LineImage(Head(lines)), aspect)),
                                      !.norms = @ + 1])

NotCompleted_onlyInProgress(b) == b.status = "in_progress"
\* b.status !== "completed"
NotCompleted(b) == b.status # "completed"

NoJob == [status |-> "none", aspect |-> "absent"]

\* res.status(code).json({ error }): error is "batch_id is required", or the
\* message of what was thrown, "backend" (a backend call) or "decode"
\* (JSON.parse, Buffer.from or Jimp.read).
StatusError(code, error) ==
  [code |-> code, keys |-> {"error"}, status |-> "error", error |-> error,
   count |-> 0, images |-> <<>>]
\* res.json({ status: b.status })
StatusOnly(st) ==
  [code |-> 200, keys |-> {"status"}, status |-> st, error |-> "",
   count |-> 0, images |-> <<>>]
\* res.json({ status: "completed", count: images.length, images })
StatusCompleted(images) ==
  [code |-> 200, keys |-> {"status", "count", "images"}, status |-> "completed",
   error |-> "", count |-> Len(images), images |-> images]

\* The handler is entered: batch_id check, then batches.retrieve is issued.
PollStart ==
  /\ spc = "start"
  /\ polls' = polls + 1
  /\ IF batchId = "absent"
     THEN /\ sResponses' = Append(sResponses, StatusError(400, "batch_id is required"))
          /\ spc' = "sent"
     ELSE /\ spc' = "retrieving"
          /\ UNCHANGED sResponses
  /\ UNCHANGED <<variant, normVars, batchVars, fastVars, batchId, job, sJob, fetches, normCalls>>

\* batches.retrieve answers with the job as it is now.
RetrieveAnswers ==
  /\ spc = "retrieving"
  /\ LET b == [status |-> job.status, aspect |-> job.aspect] IN
     /\ sJob' = b
     /\ IF NotCompleted(b)
        THEN /\ sResponses' = Append(sResponses, StatusOnly(b.status))
             /\ spc' = "sent"
             /\ UNCHANGED fetches
        ELSE /\ fetches' = fetches + 1
             /\ spc' = "fetching"
             /\ UNCHANGED sResponses
  /\ UNCHANGED <<variant, normVars, batchVars, fastVars, batchId, job, normCalls, polls>>

\* batches.retrieve or files.content fails: the handler's catch answers 500.
BackendCallFails ==
  /\ spc \in {"retrieving", "fetching"}
  /\ sResponses' = Append(sResponses, StatusError(500, "backend"))
  /\ spc' = "sent"
  /\ UNCHANGED <<variant, normVars, batchVars, fastVars, batchId, job, sJob, fetches, normCalls,
                 polls>>

\* The images of the response before this one, <<>> if there is none.
EarlierImages ==
  IF sResponses = <<>> THEN <<>> ELSE sResponses[Len(sResponses)].images

HandlerImages_shared(earlier) == earlier
\* const images = []: the array is new in every request, whatever earlier
\* requests have collected.
HandlerImages(earlier) == <<>>

\* files.content answers with the result file; the lines are decoded and the
\* response is written.
ContentAnswers ==
  /\ spc = "fetching"
  /\ LET d == DecodeLines(NonBlank(job.lines), StatusAspect(variant, sJob),
                          [ok |-> TRUE, images |-> HandlerImages(EarlierImages),
                           norms |-> 0])
     IN /\ normCalls' = normCalls + d.norms
        /\ sResponses' = Append(sResponses,
                                IF d.ok THEN StatusCompleted(d.images)
                                ELSE StatusError(500, "decode"))
  /\ spc' = "sent"
  /\ UNCHANGED <<variant, normVars, batchVars, fastVars, batchId, job, sJob, fetches, polls>>

\* The caller polls again.
PollAgain ==
  /\ spc = "sent"
  /\ polls < MaxPolls
  /\ spc' = "start"
  /\ sJob' = NoJob
  /\ fetches' = 0
  /\ normCalls' = 0
  /\ UNCHANGED <<variant, normVars, batchVars, fastVars, batchId, job, sResponses, polls>>

Manifests ==
  UNION {[1 .. n -> LineKinds] : n \in 0 .. MaxLines}
ManifestLines(m) == [i \in 1 .. Len(m) |-> [kind |-> m[i], id |-> i]]

\* The backend moves the job on; the result file exists once it is completed.
BackendAdvances ==
  /\ \/ /\ job.status = "validating"
        /\ \E st \in {"in_progress", "failed"} : job' = [job EXCEPT !.status = st]
     \/ /\ job.status = "in_progress"
        /\ \E st \in {"failed", "expired"} : job' = [job EXCEPT !.status = st]
     \/ /\ job.status = "in_progress"
        /\ \E m \in Manifests :
             job' = [job EXCEPT !.status = "completed", !.lines = ManifestLines(m)]
  /\ UNCHANGED <<variant, normVars, batchVars, fastVars, batchId, spc, sJob, sResponses, fetches,
                 normCalls, polls>>

\* ---------------------------------------------------------- /submit-batch
MaxClock == 1
Times == 0 .. MaxClock
Reqs == 1 .. 2

IdWidth == 4
DigitChars == <<"0", "1", "2", "3", "4", "5", "6", "7", "8", "9">>
\* String(idx) for idx >= 0
RECURSIVE Digits(_)
Digits(n) ==
  IF n < 10 THEN <<DigitChars[n + 1]>>
  ELSE Append(Digits(n \div 10), DigitChars[(n % 10) + 1])

PadStart_cut(str, w) ==
  LET p == [i \in 1 .. w |-> "0"] \o str IN SubSeq(p, Len(p) - w + 1, Len(p))
\* str.padStart(w, "0"): zeros in front up to the length w; a longer string
\* is left as it is.
PadStart(str, w) ==
  IF Len(str) >= w THEN str ELSE [i \in 1 .. w - Len(str) |-> "0"] \o str

\* `img_${String(idx).padStart(4, "0")}`
CustomId(idx) == <<"i", "m", "g", "_">> \o PadStart(Digits(idx), IdWidth)

\* One line of the JSONL file; method, url and model are the same in every
\* line.  The prompt is composed in server.js and raw in the two parts.
ManifestLine(v, raw, idx) ==
  [custom_id |-> CustomId(idx), prompt |-> SentPrompt(v, raw)]
\* prompts.forEach((raw, idx) => stream.write(line + "\n"))
BuildManifest(v, prompts) ==
  [i \in 1 .. Len(prompts) |-> ManifestLine(v, prompts[i], i - 1)]

\* !Array.isArray(prompts) || prompts.length === 0 answers 400; an absent
\* prompts defaults to [].
BatchValidate(b) == b.kind = "list" /\ Len(b.items) > 0

StoredAspect_default(v, a) == IF v = "server" THEN "4:3" ELSE "16:9"
\* metadata: { aspect }: DEFAULT_ASPECT in server.js, req.body.aspect
\* defaulting to "16:9" in the two parts.
StoredAspect(v, a) ==
  IF v = "server" THEN "4:3" ELSE IF a = "absent" THEN "16:9" ELSE a

\* path.join(os.tmpdir(), `input_${Date.now()}.jsonl`): the path is named by
\* its timestamp.
TmpPath(now) == now

\* A write stream opened with flags "w" writes from offset 0 on over what
\* the file holds.
Overlay(old, new) == new \o SubSeq(old, Len(new) + 1, Len(old))

NoPath == 0 - 1
NoFile == [id |-> 0, lines |-> <<>>]
NoResp == [code |-> 0, mode |-> "none", batch_id |-> "none"]
\* res.json({ mode: "batch", batch_id: batch.id })
BatchResponse(id) == [code |-> 200, mode |-> "batch", batch_id |-> id]
\* res.status(code).json({ error })
BatchError(code) == [code |-> code, mode |-> "error", batch_id |-> "none"]
\* batch.id of the n-th job the backend creates
JobId(n) == "batch_" \o ToString(n)

AfterCreate_cleanup(id) == BatchError(500)
\* What follows batches.create in the handler: the response, nothing else.
AfterCreate(id) == BatchResponse(id)

\* A request with the body b and the aspect a, not yet handled.
NewRequest(pc, b, a) ==
  [pc |-> pc, body |-> b, aspect |-> a, tmp |-> NoPath, lines |-> <<>>,
   written |-> 0, file |-> NoFile, resp |-> NoResp]

\* The handler is entered: validation, the path, createWriteStream, every
\* line handed to the stream, stream.end(), up to the await of "finish".
SubmitBatch(r) ==
  /\ breq[r].pc = "start"
  /\ IF ~BatchValidate(breq[r].body)
     THEN breq' = [breq EXCEPT ![r].pc = "sent", ![r].resp = BatchError(400)]
     ELSE breq' = [breq EXCEPT ![r].pc = "created",
                               ![r].tmp = TmpPath(clock),
                               ![r].lines = BuildManifest(variant, breq[r].body.items)]
  /\ UNCHANGED <<variant, normVars, fastVars, statusVars, clock, disk, bjobs>>

\* The write stream opens its file: created, or truncated if it exists.
StreamOpens(r) ==
  /\ breq[r].pc = "created"
  /\ disk' = [disk EXCEPT ![breq[r].tmp] = [exists |-> TRUE, lines |-> <<>>]]
  /\ breq' = [breq EXCEPT ![r].pc = "open"]
  /\ UNCHANGED <<variant, normVars, fastVars, statusVars, clock, bjobs>>

\* The stream writes its lines out and emits "finish"; the handler resumes
\* and issues files.create on a read stream of the path.
StreamFlushes(r) ==
  /\ breq[r].pc = "open"
  /\ disk' = [disk EXCEPT ![breq[r].tmp].lines = Overlay(@, breq[r].lines)]
  /\ breq' = [breq EXCEPT ![r].pc = "uploading", ![r].written = Len(breq[r].lines)]
  /\ UNCHANGED <<variant, normVars, fastVars, statusVars, clock, bjobs>>

\* The write stream fails (the file cannot be opened, the disk is full): it
\* emits "error" and never "finish".  The handler listens for "finish" only,
\* so its await never ends, if the unhandled "error" event does not end the
\* process first; in both cases the request gets no response.
StreamFails(r) ==
  /\ breq[r].pc \in {"created", "open"}
  /\ breq' = [breq EXCEPT ![r].pc = "stranded"]
  /\ UNCHANGED <<variant, normVars, fastVars, statusVars, clock, disk, bjobs>>

\* files.create answers: the backend holds what the read stream found at the
\* path; the handler issues batches.create.
UploadAnswers(r) ==
  /\ breq[r].pc = "uploading"
  /\ breq' = [breq EXCEPT ![r].pc = "creating",
                          ![r].file = [id |-> r, lines |-> disk[breq[r].tmp].lines]]
  /\ UNCHANGED <<variant, normVars, fastVars, statusVars, clock, disk, bjobs>>

\* batches.create answers: the job exists, the handler writes its response.
\* job is the job the caller of /status asks for, the first one created.
CreateAnswers(r) ==
  /\ breq[r].pc = "creating"
  /\ LET id == JobId(Len(bjobs) + 1)
         a == StoredAspect(variant, breq[r].aspect)
     IN /\ bjobs' = Append(bjobs, [id |-> id, owner |-> r, aspect |-> a,
                                   input |-> breq[r].file.lines])
        /\ breq' = [breq EXCEPT ![r].pc = "sent", ![r].resp = AfterCreate(id)]
        /\ job' = IF job.status = "none"
                  THEN [status |-> "validating", aspect |-> a, lines |-> <<>>]
                  ELSE job
  /\ UNCHANGED <<variant, normVars, fastVars, batchId, spc, sJob, sResponses,
                 fetches, normCalls, polls, clock, disk>>

\* files.create or batches.create fails: the catch answers 500.
BatchCallFails(r) ==
  /\ breq[r].pc \in {"uploading", "creating"}
  /\ breq' = [breq EXCEPT ![r].pc = "sent", ![r].resp = BatchError(500)]
  /\ UNCHANGED <<variant, normVars, fastVars, statusVars, clock, disk, bjobs>>

\* A millisecond passes.
Tick ==
  /\ clock < MaxClock
  /\ clock' = clock + 1
  /\ UNCHANGED <<variant, normVars, fastVars, statusVars, breq, disk, bjobs>>

\* The result files the backend may produce for n requests: an image for
\* every line, or for every line but one.
ResultKinds(n) ==
  {[i \in 1 .. n |-> IF i = k THEN "nopayload" ELSE "image"] : k \in 0 .. n}

\* The backend works on the first job it was given.
JobAdvances ==
  /\ bjobs # <<>>
  /\ \/ /\ job.status = "validating"
        /\ \E st \in {"in_progress", "failed"} : job' = [job EXCEPT !.status = st]
     \/ /\ job.status = "in_progress"
        /\ job' = [job EXCEPT !.status = "expired"]
     \/ /\ job.status = "in_progress"
        /\ \E m \in ResultKinds(Len(bjobs[1].input)) :
             job' = [job EXCEPT !.status = "completed", !.lines = ManifestLines(m)]
  /\ UNCHANGED <<variant, normVars, fastVars, batchId, spc, sJob, sResponses, fetches,
                 normCalls, polls, batchVars>>

\* --------------------------------------------------------- specifications
BatchIdle ==
  /\ clock = 0
  /\ breq = [r \in Reqs |-> NewRequest("off", [kind |-> "absent", items |-> <<>>], "absent")]
  /\ disk = [t \in Times |-> [exists |-> FALSE, lines |-> <<>>]]
  /\ bjobs = <<>>

NormIdle ==
  /\ nImg = [w |-> 1, h |-> 1, src |-> "x"]
  /\ nAspect = "4:3"
  /\ nOut = None
  /\ nAgain = None

FastIdle ==
  /\ body = [kind |-> "absent", items |-> <<>>]
  /\ reqAspect = "absent"
  /\ imgSize = [w |-> 1024, h |-> 1024]
  /\ fpc = "start"
  /\ limited = <<>>
  /\ tasks = <<>>
  /\ results = <<>>
  /\ responses = <<>>
  /\ faults = 0
  /\ called = {}
  /\ overtaken = FALSE
  /\ lateCall = FALSE

StatusIdle ==
  /\ batchId = "absent"
  /\ job = [status |-> "validating", aspect |-> "absent", lines |-> <<>>]
  /\ spc = "start"
  /\ sJob = NoJob
  /\ sResponses = <<>>
  /\ fetches = 0
  /\ normCalls = 0
  /\ polls = 0

InitNorm ==
  /\ variant \in Variants
  /\ nImg \in [w : SourceDims, h : SourceDims, src : {"x"}]
  /\ nAspect \in Aspects
  /\ nOut = None
  /\ nAgain = None
  /\ FastIdle
  /\ StatusIdle
  /\ BatchIdle

\* One call of toAspect(nImg, nAspect).
Normalize ==
  /\ nOut.step = "none"
  /\ nOut' = toAspectSteps(nImg, nAspect)
  /\ UNCHANGED <<variant, nImg, nAspect, nAgain, fastVars, statusVars, batchVars>>

\* A second call of toAspect, on the image the first one returned.
Renormalize ==
  /\ nOut.step # "none"
  /\ nAgain.step = "none"
  /\ nAgain' = toAspectSteps(nOut.out, nAspect)
  /\ UNCHANGED <<variant, nImg, nAspect, nOut, fastVars, statusVars, batchVars>>

NextNorm == Normalize \/ Renormalize

SpecNorm == InitNorm /\ [][NextNorm]_vars

\* The subject at position i of a request: distinct at every position.
Subject(i) == <<"#", ToString(i)>>
PromptList(n) == [i \in 1 .. n |-> Subject(i)]
ListLens == (0 .. MaxShort) \cup ((FastLimit + 1) .. (FastLimit + MaxExtra))
Bodies ==
  {[kind |-> "list", items |-> PromptList(n)] : n \in ListLens}
  \cup {[kind |-> k, items |-> <<>>] :
          k \in {"absent", "null", "number", "string", "object"}}
BackendSizes == {[w |-> 1024, h |-> 1024], [w |-> 1536, h |-> 1024]}

InitFast ==
  /\ variant \in Variants
  /\ NormIdle
  /\ body \in Bodies
  /\ reqAspect \in {"4:3", "absent"}
  /\ imgSize \in BackendSizes
  /\ fpc = "start"
  /\ limited = <<>>
  /\ tasks = <<>>
  /\ results = <<>>
  /\ responses = <<>>
  /\ faults = 0
  /\ called = {}
  /\ overtaken = FALSE
  /\ lateCall = FALSE
  /\ StatusIdle
  /\ BatchIdle

NextFast ==
  \/ SubmitFast
  \/ \E i \in 1 .. FastLimit + MaxExtra : \E o \in Outcomes : BackendAnswers(i, o)
  \/ \E i \in 1 .. FastLimit + MaxExtra : RetryAfterSleep(i)
  \/ \E i \in 1 .. FastLimit + MaxExtra : \E k \in HangKinds : CallNeverResolves(i, k)
  \/ \E i \in 1 .. FastLimit + MaxExtra : TimeoutAborts(i)
  \/ \E i \in 1 .. FastLimit + MaxExtra : LibraryAborts(i)

SpecFast == InitFast /\ [][NextFast]_vars

InitStatus ==
  /\ variant \in Variants
  /\ NormIdle
  /\ FastIdle
  /\ BatchIdle
  /\ batchId \in {"absent", "batch_1"}
  /\ job \in [status : {"validating"}, aspect : Aspects \cup {"absent"}, lines : {<<>>}]
  /\ spc = "start"
  /\ sJob = NoJob
  /\ sResponses = <<>>
  /\ fetches = 0
  /\ normCalls = 0
  /\ polls = 0

NextStatus ==
  \/ PollStart
  \/ RetrieveAnswers
  \/ BackendCallFails
  \/ ContentAnswers
  \/ PollAgain
  \/ BackendAdvances

SpecStatus == InitStatus /\ [][NextStatus]_vars

\* The subjects of request r: no subject occurs in both requests.
SubjectOf(r, i) == IF r = 1 THEN Subject(i) ELSE <<"#", ToString(i), "b">>
BatchBodies(r) ==
  {[kind |-> "list", items |-> [i \in 1 .. n |-> SubjectOf(r, i)]] : n \in ListLens}
  \cup {[kind |-> k, items |-> <<>>] : k \in {"absent", "string"}}

\* Two /submit-batch requests that may arrive in any order, in the same
\* millisecond or not.
InitBatch ==
  /\ variant \in Variants
  /\ NormIdle
  /\ FastIdle
  /\ StatusIdle
  /\ clock = 0
  /\ \E b1 \in BatchBodies(1), b2 \in BatchBodies(2), a1 \in {"4:3", "absent"} :
       breq = [r \in Reqs |-> IF r = 1 THEN NewRequest("start", b1, a1)
                                       ELSE NewRequest("start", b2, "absent")]
  /\ disk = [t \in Times |-> [exists |-> FALSE, lines |-> <<>>]]
  /\ bjobs = <<>>

NextBatch ==
  \/ \E r \in Reqs : SubmitBatch(r)
  \/ \E r \in Reqs : StreamOpens(r)
  \/ \E r \in Reqs : StreamFlushes(r)
  \/ \E r \in Reqs : StreamFails(r)
  \/ \E r \in Reqs : UploadAnswers(r)
  \/ \E r \in Reqs : CreateAnswers(r)
  \/ \E r \in Reqs : BatchCallFails(r)
  \/ Tick

SpecBatch == InitBatch /\ [][NextBatch]_vars

\* A job some other client created, without metadata.
ForeignJob ==
  [id |-> JobId(1), owner |-> 0, aspect |-> "absent",
   input |-> BuildManifest(variant, PromptList(MaxShort))]

\* One job from its submission to the polls of its results: either one
\* /submit-batch request, or a job that exists already and has no metadata.
InitLife ==
  /\ variant \in Variants
  /\ NormIdle
  /\ FastIdle
  /\ batchId = JobId(1)
  /\ spc = "start"
  /\ sJob = NoJob
  /\ sResponses = <<>>
  /\ fetches = 0
  /\ normCalls = 0
  /\ polls = 0
  /\ clock = 0
  /\ disk = [t \in Times |-> [exists |-> FALSE, lines |-> <<>>]]
  /\ \/ /\ \E b \in BatchBodies(1), a \in Aspects \cup {"absent"} :
             breq = [r \in Reqs |-> IF r = 1 THEN NewRequest("start", b, a)
                                             ELSE NewRequest("off", b, a)]
        /\ bjobs = <<>>
        /\ job = [status |-> "none", aspect |-> "absent", lines |-> <<>>]
     \/ /\ breq = [r \in Reqs |->
                     NewRequest("off", [kind |-> "absent", items |-> <<>>], "absent")]
        /\ bjobs = <<ForeignJob>>
        /\ job = [status |-> "validating", aspect |-> "absent", lines |-> <<>>]

\* The caller polls the job once it has its id.
CallerPolls ==
  /\ job.status # "none"
  /\ PollStart

NextLife ==
  \/ \E r \in Reqs : SubmitBatch(r)
  \/ \E r \in Reqs : StreamOpens(r)
  \/ \E r \in Reqs : StreamFlushes(r)
  \/ \E r \in Reqs : StreamFails(r)
  \/ \E r \in Reqs : UploadAnswers(r)
  \/ \E r \in Reqs : CreateAnswers(r)
  \/ \E r \in Reqs : BatchCallFails(r)
  \/ JobAdvances
  \/ CallerPolls
  \/ RetrieveAnswers
  \/ BackendCallFails
  \/ ContentAnswers
  \/ PollAgain

SpecLife == InitLife /\ [][NextLife]_vars

\* ------------------------------------------------------------------ claims
LastOf(seq) == seq[Len(seq)]

\* C1: for both supported aspects and every source size, the image toAspect
\* returns has exactly the target size, because the resized image is at least
\* as wide and as high as the target and the crop window lies inside it.
C1_ExactTarget ==
  nOut.step # "none" =>
    LET T == targetSize(nAspect)
    IN /\ nOut.out.w = T.w
       /\ nOut.out.h = T.h
       /\ nOut.scaled.w >= T.w
       /\ nOut.scaled.h >= T.h
       /\ nOut.x + T.w <= nOut.scaled.w
       /\ nOut.y + T.h <= nOut.scaled.h

C1_Witness ==
  /\ nOut.step # "none"
  /\ nImg.w = 1024 /\ nImg.h = 1024 /\ nAspect = "16:9"
  /\ nOut.step = "cropY"
  /\ nOut.scaled.h = 1920
  /\ nOut.out.w = 1920 /\ nOut.out.h = 1080

\* C2: the generation call of every /submit-fast handler makes at most 3
\* backend attempts per prompt; an item that failed on a failing backend has
\* made exactly 3 attempts, and an item that succeeded returns the image
\* of its last attempt (the 3rd after two failures).
C2_ThreeAttempts ==
  \A i \in 1 .. Len(tasks) :
    /\ tasks[i].calls <= 3
    /\ (tasks[i].st = "failed" /\ tasks[i].last = "fail") => tasks[i].calls = 3
    /\ tasks[i].st = "done" => tasks[i].img.src.attempt = tasks[i].calls

\* C2 on the two revisions that call generateImageB64.
C2_RetryingRevisions == variant # "part_000" => C2_ThreeAttempts

\* C3: an answer that reports success without an image payload counts as a
\* failed attempt: it is followed by a retry while attempts remain, fails the
\* item only after the 3rd attempt, and is never returned as a success.
C3_EmptyPayloadRetried ==
  \A i \in 1 .. Len(tasks) :
    /\ tasks[i].st = "done" => tasks[i].last = "ok"
    /\ (tasks[i].last = "empty" /\ tasks[i].st # "calling") =>
         \/ tasks[i].st = "sleeping" /\ tasks[i].calls < 3
         \/ tasks[i].st = "failed" /\ tasks[i].calls = 3

\* C3 on the two revisions that call generateImageB64.
C3_RetryingRevisions == variant # "part_000" => C3_EmptyPayloadRetried

\* The images a lenient decoder returns: one per line with a decodable image.
ImageLines(lines) == SelectSeq(lines, LAMBDA l : l.kind = "image")
ExpectedImages(lines, aspect) ==
  [i \in 1 .. Len(ImageLines(lines)) |-> toAspect(LineImage(ImageLines(lines)[i]), aspect)]

\* A poll whose result file arrived has answered.
Decoded ==
  /\ spc = "sent"
  /\ sJob.status = "completed"
  /\ sResponses # <<>>
  /\ LastOf(sResponses).error # "backend"

\* C4: when /status decodes the result file of a completed job, a line that
\* cannot be decoded (malformed JSON, a payload that is no raster image) is
\* dropped and the response is still completed, with the images of the
\* remaining lines.
C4_UndecodableLineDropped ==
  Decoded =>
    LastOf(sResponses) = StatusCompleted(ExpectedImages(job.lines, StatusAspect(variant, sJob)))

\* C5: /submit-fast with a prompts value that is an empty list or no list
\* answers 4xx, and no generation-backend call is made.
C5_BadRequestBeforeBackend ==
  (fpc # "start" /\ (~IsArray(body) \/ Len(body.items) = 0)) =>
    /\ Len(responses) = 1
    /\ responses[1].code \in 400 .. 499
    /\ called = {}

\* C5 on the two revisions that test Array.isArray before slicing.
C5_GuardedRevisions == variant # "part_000" => C5_BadRequestBeforeBackend

\* C6: of n > 10 prompts exactly the first 10 are retained, in input order, no
\* backend call is made for a prompt at a later position, and a successful
\* response carries min(n, 10) images with count = min(n, 10); the truncation
\* is not answered with an error.
C6_FirstTenOnly ==
  (fpc # "start" /\ IsArray(body) /\ Len(body.items) > 0) =>
    LET n == Len(body.items)
        kept == IF n < 10 THEN n ELSE 10
    IN /\ limited = [i \in 1 .. kept |-> body.items[i]]
       /\ Len(tasks) = kept
       /\ called \subseteq {SentPrompt(variant, body.items[i]) : i \in 1 .. kept}
       /\ \A k \in 1 .. Len(responses) :
            /\ responses[k].code \notin 400 .. 499
            /\ responses[k].code = 200 =>
                 /\ responses[k].count = kept
                 /\ Len(responses[k].images) = kept

C6_Witness ==
  /\ IsArray(body) /\ Len(body.items) = 11
  /\ responses # <<>>
  /\ responses[1].code = 200
  /\ responses[1].count = 10
  /\ Cardinality(called) = 10

\* C7: in a successful fast response the image at position i is the
\* normalized image generated for input prompt i, whatever the order in which
\* the items' backend calls completed.
C7_InputOrder ==
  \A k \in 1 .. Len(responses) :
    responses[k].code = 200 =>
      /\ Len(responses[k].images) = Len(limited)
      /\ \A i \in 1 .. Len(responses[k].images) :
           /\ responses[k].images[i].src.prompt = SentPrompt(variant, body.items[i])
           /\ responses[k].images[i] = tasks[i].img
           /\ responses[k].images[i].w = targetSize(FastAspect).w
           /\ responses[k].images[i].h = targetSize(FastAspect).h

C7_Witness ==
  /\ variant = "part_001"
  /\ overtaken
  /\ responses # <<>>
  /\ responses[1].code = 200
  /\ Len(responses[1].images) = 3
  /\ tasks[1].calls = 2
  /\ responses[1].images[1].src = [prompt |-> Subject(1), attempt |-> 2]

\* C8: if generation or normalization fails for one retained prompt, the
\* request ends with a server error that carries no images; a response with
\* mode fast is produced only when every retained prompt succeeded; exactly
\* one response is sent per request.
C8_NoPartialSuccess ==
  /\ Len(responses) <= 1
  /\ fpc = "sent" <=> Len(responses) = 1
  /\ (\E i \in 1 .. Len(tasks) : tasks[i].st = "failed") =>
       /\ Len(responses) = 1
       /\ responses[1].code = 500
       /\ responses[1].mode # "fast"
       /\ responses[1].images = <<>>
  /\ \A k \in 1 .. Len(responses) :
       responses[k].mode = "fast" =>
         /\ Len(limited) > 0
         /\ \A i \in 1 .. Len(tasks) : tasks[i].st = "done"
         /\ Len(responses[k].images) = Len(limited)

C8_Witness ==
  /\ variant = "part_001"
  /\ Len(tasks) = 3
  /\ tasks[1].st = "done"
  /\ tasks[2].st = "failed" /\ tasks[2].last = "fail" /\ tasks[2].calls = 3
  /\ tasks[3].st = "failed" /\ tasks[3].last = "garbage"
  /\ responses = <<ErrorResponse(500)>>

\* C9: a poll of a job whose backend status is not completed returns exactly
\* that status and nothing else, and fetches no result file and normalizes
\* nothing.
C9_StatusOnly ==
  (spc = "sent" /\ sJob.status \notin {"none", "completed"}) =>
    /\ LastOf(sResponses) = StatusOnly(sJob.status)
    /\ LastOf(sResponses).keys = {"status"}
    /\ fetches = 0
    /\ normCalls = 0

C9_Witness ==
  /\ spc = "sent"
  /\ sJob.status = "expired"
  /\ job.status = "expired"
  /\ LastOf(sResponses).status = "expired"
  /\ fetches = 0

\* C10: a poll of a completed job whose result file has only well-formed
\* lines returns one image per line that carries a payload and none for the
\* others, in line order, with count the number of returned images.
WellFormed(lines) == \A i \in 1 .. Len(lines) : lines[i].kind \in {"image", "nopayload", "blank"}

C10_OneImagePerPayload ==
  (Decoded /\ WellFormed(job.lines)) =>
    LET r == LastOf(sResponses)
        withPayload == ImageLines(job.lines)
    IN /\ r.code = 200
       /\ r.status = "completed"
       /\ r.count = Len(withPayload)
       /\ Len(r.images) = Len(withPayload)
       /\ \A i \in 1 .. Len(withPayload) :
            r.images[i] = toAspect(LineImage(withPayload[i]), StatusAspect(variant, sJob))
       /\ normCalls = Len(withPayload)

C10_Witness ==
  /\ Decoded
  /\ Len(job.lines) = 4
  /\ job.lines[2].kind = "nopayload"
  /\ \A i \in {1, 3, 4} : job.lines[i].kind = "image"
  /\ LastOf(sResponses).count = 3
  /\ LastOf(sResponses).images[2].src.prompt = <<"#", "3">>

\* C11: a single-item backend call that never resolves (no answer, or a
\* body that never finishes) is aborted by the per-call timeout and counted
\* as a failed attempt: a call that hangs always has something standing
\* ready to abort it, so no generate call waits forever.
C11_HungCallAborted ==
  \A i \in 1 .. Len(tasks) :
    tasks[i].st = "hung" => Timer(tasks[i]) # "none"

\* C11 for calls of part_001 whose connection never answers.
C11_NoAnswerAborted ==
  \A i \in 1 .. Len(tasks) :
    (variant = "part_001" /\ tasks[i].st = "hung" /\ tasks[i].last = "hang") =>
      Timer(tasks[i]) = "armed"

\* The prompt p is the style prefix, then "\n\nSubject: ", then the subject:
\* it begins with the prefix and ends with the subject.
IsComposed(p, subject) ==
  LET a == Len(STYLE_PREFIX)
      b == Len(Separator)
  IN /\ Len(p) = a + b + Len(subject)
     /\ SubSeq(p, 1, a) = STYLE_PREFIX
     /\ SubSeq(p, a + 1, a + b) = Separator
     /\ SubSeq(p, a + b + 1, Len(p)) = subject

\* C14: every prompt the fast handler sends to the backend is the style
\* prefix, the separator "\n\nSubject: " and one subject of the request, in
\* that order, and two different subjects are sent as different prompts.
C14_PromptComposed ==
  /\ \A p \in called :
       \E i \in 1 .. Len(body.items) : IsComposed(p, body.items[i])
  /\ \A i, j \in 1 .. Len(limited) :
       limited[i] # limited[j] =>
         SentPrompt(variant, limited[i]) # SentPrompt(variant, limited[j])

\* C14 for server.js alone, with a prompt sent.
C14_ServerComposes ==
  variant = "server" => C14_PromptComposed
C14_ServerSends ==
  variant = "server" /\ Cardinality(called) >= 2

\* C18: an image that already has the target size goes through toAspect
\* with no resize and no crop and comes back unchanged, so normalizing the
\* result of a normalization returns it as it is.
C18_Idempotent ==
  /\ (nOut.step # "none" /\ nImg.w = targetSize(nAspect).w
                         /\ nImg.h = targetSize(nAspect).h) =>
       (nOut.step = "asis" /\ nOut.out = nImg)
  /\ nAgain.step # "none" =>
       (nAgain.step = "asis" /\ nAgain.out = nOut.out)
C18_Witness ==
  /\ nOut.step = "cropX"
  /\ nAgain.step = "asis"
  /\ nAgain.out = nOut.out

\* The integer nearest to n / d, halves up, for n >= 0 and d > 0.
IsRounded(k, n, d) == (2 * k - 1) * d <= 2 * n /\ 2 * n < (2 * k + 1) * d

CompletedPolls == {k \in 1 .. Len(sResponses) : sResponses[k].status = "completed"}

\* A step of the /status handler or of its caller.
PollStep == spc' # spc

\* C19: a poll keeps nothing between calls and changes nothing: no step of
\* the handler changes the job at the backend, a poll of a completed job has
\* fetched the result file and normalized every image it returns in that
\* same poll, and any two polls of the completed job return the same images
\* in the same order.
C19_Repeatable ==
  /\ [](\A k1, k2 \in CompletedPolls : sResponses[k1] = sResponses[k2])
  /\ []((spc = "sent" /\ Len(sResponses) \in CompletedPolls) =>
         (fetches = 1 /\ normCalls = sResponses[Len(sResponses)].count))
  /\ [][PollStep => job' = job]_vars
C19_Witness ==
  /\ Cardinality(CompletedPolls) >= 2
  /\ spc = "sent"
  /\ sResponses[Len(sResponses)].count >= 2
  /\ fetches = 1

\* The requests that have passed validation and named their file.
Submitted(r) == breq[r].tmp # NoPath

\* C12: two batch submissions never share a manifest file: whatever the
\* interleaving of two /submit-batch requests, their paths differ.
C12_OwnManifestFile ==
  \A r1, r2 \in Reqs :
    (r1 # r2 /\ Submitted(r1) /\ Submitted(r2)) => breq[r1].tmp # breq[r2].tmp

\* C13: a job the backend has created is never lost: the request that
\* created it has answered 200 with the id of that job.
C13_CreatedJobAnswered ==
  \A k \in 1 .. Len(bjobs) :
    bjobs[k].owner \in Reqs =>
      /\ breq[bjobs[k].owner].pc = "sent"
      /\ breq[bjobs[k].owner].resp = BatchResponse(bjobs[k].id)
C13_Witness ==
  /\ Len(bjobs) = 2
  /\ breq[1].resp.code = 200
  /\ breq[2].resp.code = 200
  /\ breq[1].resp.batch_id # breq[2].resp.batch_id

\* The upload of request r has begun.
UploadBegun(r) == breq[r].pc \in {"uploading", "creating"} \/ breq[r].file.id # 0

\* C16: the upload begins only when every line of the manifest has been
\* written, and the uploaded manifest holds every line of the submission.
C16_UploadedComplete ==
  \A r \in Reqs :
    /\ UploadBegun(r) => breq[r].written = Len(breq[r].lines)
    /\ breq[r].file.id # 0 => breq[r].file.lines = breq[r].lines

\* C16 for a submission whose path no other submission has taken.
C16_UnsharedComplete ==
  \A r \in Reqs :
    (breq[r].file.id # 0 /\ \A q \in Reqs \ {r} : breq[q].tmp # breq[r].tmp) =>
      breq[r].file.lines = breq[r].lines

\* C16, the order of the steps alone.
C16_WrittenBeforeUpload ==
  \A r \in Reqs : UploadBegun(r) => breq[r].written = Len(breq[r].lines)

\* Positions of lines: those of the requests, and some around and above 9999.
IdIndices ==
  (0 .. FastLimit + MaxExtra) \cup
  {99, 100, 999, 1000, 9998, 9999, 10000, 10001, 19999, 20000, 99999, 100000}

\* C17: the manifest a submission builds has one line per prompt, in input
\* order, however long the list; line i carries the prompt of subject i and
\* the id img_ followed by i - 1 in at least four digits, and two different
\* positions never get the same id, also above 9999.
C17_OneLinePerPrompt ==
  /\ \A r \in Reqs :
       Submitted(r) =>
         /\ Len(breq[r].lines) = Len(breq[r].body.items)
         /\ \A i \in 1 .. Len(breq[r].lines) :
              /\ breq[r].lines[i].prompt = SentPrompt(variant, breq[r].body.items[i])
              /\ breq[r].lines[i].custom_id = CustomId(i - 1)
         /\ \A i, j \in 1 .. Len(breq[r].lines) :
              i # j => breq[r].lines[i].custom_id # breq[r].lines[j].custom_id
  /\ (\A r \in Reqs : breq[r].pc = "start") =>
       \A i, j \in IdIndices :
         /\ Len(CustomId(i)) >= 4 + IdWidth
         /\ i # j => CustomId(i) # CustomId(j)
C17_Witness ==
  \E r \in Reqs :
    /\ Submitted(r)
    /\ Len(breq[r].lines) > FastLimit
    /\ breq[r].lines[FastLimit + 1].custom_id = <<"i", "m", "g", "_", "0", "0", "1", "0">>

\* Every image of every poll answered with images has the size of aspect a.
PolledImagesHave(a) ==
  \A k \in CompletedPolls :
    \A i \in 1 .. Len(sResponses[k].images) :
      /\ sResponses[k].images[i].w = targetSize(a).w
      /\ sResponses[k].images[i].h = targetSize(a).h

\* C15: the aspect of a batch submission is stored in the metadata of the
\* job and used by the polls: a job submitted with the aspect A has that
\* metadata and every polled image has the target size of A (the aspect of
\* the request in the two parts, "16:9" if the request names none; the fixed
\* "4:3" in server.js); a job without aspect metadata is normalized to the
\* default of the revision.
C15_AspectFromMetadata ==
  bjobs # <<>> =>
    IF bjobs[1].owner = 1
    THEN LET A == IF variant = "server" THEN "4:3"
                  ELSE IF breq[1].aspect \in Aspects THEN breq[1].aspect
                  ELSE "16:9"
         IN /\ job.aspect = A
            /\ PolledImagesHave(A)
    ELSE /\ job.aspect = "absent"
         /\ PolledImagesHave(IF variant = "server" THEN "4:3" ELSE "16:9")
C15_Witness ==
  /\ variant = "part_001"
  /\ bjobs # <<>>
  /\ bjobs[1].owner = 1
  /\ breq[1].aspect = "4:3"
  /\ \E k \in CompletedPolls :
       /\ sResponses[k].count >= 2
       /\ sResponses[k].images[1].w = 1600
       /\ sResponses[k].images[1].h = 1200

\* The fast request has been answered with an error.
FastFailed ==
  fpc = "sent" /\ responses # <<>> /\ responses[Len(responses)].code # 200

\* C21: once a fast request has failed and its error response is written,
\* no backend call is issued for it any more: no later prompt is attempted
\* and no other item retries.
C21_NoCallAfterFailure ==
  FastFailed => ~lateCall

\* C21 for the sequential handlers of server.js and part_000: nothing is
\* issued after the failure and nothing is left under way.
C21_SequentialStops ==
  (~Concurrent /\ FastFailed) =>
    /\ ~lateCall
    /\ \A i \in 1 .. Len(tasks) : tasks[i].st \notin {"calling", "sleeping", "hung"}
C21_SequentialFailed ==
  /\ ~Concurrent
  /\ FastFailed
  /\ \E i \in 1 .. Len(tasks) : tasks[i].st = "idle"

\* Some step of the handler of request r, or of what it waits for.
BatchStep(r) ==
  \/ SubmitBatch(r)
  \/ StreamOpens(r)
  \/ StreamFlushes(r)
  \/ UploadAnswers(r)
  \/ CreateAnswers(r)
  \/ BatchCallFails(r)

\* C22: every /submit-batch request ends with exactly one response: a
\* request is answered exactly when its handler has ended, and a request not
\* yet answered always has a step ahead of it that leads on, also when the
\* write of the manifest file fails.
C22_AlwaysAnswered ==
  \A r \in Reqs :
    /\ (breq[r].pc = "sent") <=> (breq[r].resp # NoResp)
    /\ breq[r].pc \notin {"off", "sent"} => ENABLED BatchStep(r)

\* C22 for the requests whose manifest file is written without an error.
C22_AnsweredIfWritten ==
  \A r \in Reqs :
    /\ (breq[r].pc = "sent") <=> (breq[r].resp # NoResp)
    /\ breq[r].pc \notin {"off", "sent", "stranded"} => ENABLED BatchStep(r)

====
